---------------------------- MODULE Spec2Model ----------------------------
(***************************************************************************)
(* A model of the RetinaNet layers (deepcell/layers/retinanet.py) and of   *)
(* the feature pyramid / semantic head assembly                            *)
(* (deepcell/model_zoo/semantic_head.py).                                  *)
(*                                                                         *)
(* The layers and assembly functions are stateless: an operation takes its *)
(* inputs and returns its outputs.  The state of the model is the layer    *)
(* that was constructed, the inputs of the one call made on it and what    *)
(* the call returned (or the error it raised).                             *)
(*                                                                         *)
(* Tensors are functions over 0-based index ranges, as in the code.        *)
(* Pixel coordinates are exact rationals with denominator Scale; real      *)
(* arithmetic is exact (floating-point rounding is not modelled).          *)
(***************************************************************************)
EXTENDS Integers, Sequences, FiniteSets, TLC

VARIABLES
    pc,      \* "built" before the call, "done" after it
    layer,   \* the constructed layer's fields / the function called
    args,    \* the inputs of the call
    ret      \* what the call returned

vars == <<pc, layer, args, ret>>

None == [none |-> TRUE]

Max(S) == CHOOSE x \in S : \A y \in S : y <= x
Min(S) == CHOOSE x \in S : \A y \in S : x <= y

(***************************************************************************)
(* Exact arithmetic on naturals beyond the machine word: little-endian     *)
(* digit sequences in base Base.  Used to compare real quantities exactly. *)
(***************************************************************************)
Base == 10^4

RECURSIVE Carry(_, _)
Carry(s, c) ==
    IF s = <<>>
    THEN IF c = 0 THEN <<>> ELSE <<c % Base>> \o Carry(<<>>, c \div Base)
    ELSE <<(Head(s) + c) % Base>> \o Carry(Tail(s), (Head(s) + c) \div Base)

BigOf(n) == Carry(<<n>>, 0)

BigDigit(s, i) == IF i <= Len(s) THEN s[i] ELSE 0

BigAdd(a, b) ==
    Carry([i \in 1..Max({Len(a), Len(b)}) |-> BigDigit(a, i) + BigDigit(b, i)], 0)

BigScale(a, d) == Carry([i \in 1..Len(a) |-> a[i] * d], 0)

RECURSIVE BigMul(_, _)
BigMul(a, b) ==
    IF b = <<>> THEN <<>>
    ELSE BigAdd(BigScale(a, Head(b)), <<0>> \o BigMul(a, Tail(b)))

BigSquare(a) == BigMul(a, a)

BigGeq(a, b) ==
    LET n == Max({Len(a), Len(b), 1})
        diffs == {i \in 1..n : BigDigit(a, i) # BigDigit(b, i)}
    IN  diffs = {} \/ BigDigit(a, Max(diffs)) > BigDigit(b, Max(diffs))

(***************************************************************************)
(* RoiAlign.map_to_level                                                   *)
(***************************************************************************)
\* Coordinates are multiples of 1/Scale pixel.
Scale == 10

\* map_to_level's default arguments.
canonical_size == 224
canonical_level == 1
min_level == 0
max_level == 4

\* K.epsilon() is 1e-7 = 1 / EpsInv.
EpsInv == 10^7

\* The level of a box whose size is NaN (K.sqrt of a negative product).
NaN == -1

BoxW(box) == box[3] - box[1]
BoxH(box) == box[4] - box[2]

\* size / canonical_size + K.epsilon() >= 2^e, for e >= 0 and w * h >= 0, with
\* size = K.sqrt(w * h).  In units of 1/Scale: sqrt(W*H) / (Scale*c) + 1/E >= 2^e
\* iff E * sqrt(W*H) >= Scale*c * (2^e * E - 1) iff W*H * E^2 >= (Scale*c * (2^e*E - 1))^2.
SizeRatioGeqMutant(box, e) ==
    BoxW(box) * BoxH(box) >= (Scale * canonical_size * 2^e) * (Scale * canonical_size * 2^e)

EpsInvSquared == BigSquare(BigOf(EpsInv))

SizeRatioBound ==
    [e \in 0..(max_level - canonical_level) |->
        BigSquare(BigMul(BigOf(Scale * canonical_size), BigOf(2^e * EpsInv - 1)))]

SizeRatioGeq(box, e) ==
    BigGeq(BigMul(BigOf(BoxW(box) * BoxH(box)), EpsInvSquared), SizeRatioBound[e])

\* levels = K.clip(tf.floor(canonical_level + log2(size / canonical_size + eps)),
\*                 min_level, max_level)
\* floor(canonical_level + log2(y)) >= L iff y >= 2^(L - canonical_level); the clip
\* keeps the result in min_level..max_level.  NaN passes through floor and clip.
LevelOfBox(box) ==
    IF BoxW(box) * BoxH(box) < 0 THEN NaN
    ELSE Max({min_level} \cup
             {L \in (min_level + 1)..max_level : SizeRatioGeq(box, L - canonical_level)})

\* Box sides tried for map_to_level, around the level thresholds.
LevelSides ==
    {0, canonical_size * Scale - 1, canonical_size * Scale,
     canonical_size * Scale + 1, 2 * canonical_size * Scale,
     8 * canonical_size * Scale - 1, 8 * canonical_size * Scale}

\* Boxes with x1 = y1 = 0, and boxes of negative width (x2 < x1).
LevelBoxes ==
    {<<0, 0, x2, y2>> : x2 \in LevelSides, y2 \in LevelSides}
    \cup {<<Scale, 0, 0, y2>> : y2 \in LevelSides}

\* Boxes of 100 x 100 and 300 x 300 pixels (levels 0 and 1) for RoiAlign.call.
RoiBoxes == {<<0, 0, 100 * Scale, 100 * Scale>>, <<0, 0, 300 * Scale, 300 * Scale>>}

\* The levels of the boxes tried, computed once.
LevelTable == [box \in LevelBoxes \cup RoiBoxes |-> LevelOfBox(box)]

\* map_to_level on a [batch, n, 4] tensor of boxes: a [batch, n] tensor of levels.
map_to_level(boxes) ==
    [b \in DOMAIN boxes |-> [j \in DOMAIN boxes[b] |-> LevelTable[boxes[b][j]]]]

InitLevel ==
    /\ pc = "built"
    /\ layer = [class |-> "RoiAlign"]
    /\ args = None
    /\ ret = None

\* levels = layer.map_to_level(boxes) on a batch of one image with two boxes.
MapToLevelCall ==
    /\ pc = "built"
    /\ \E b1 \in LevelBoxes, b2 \in LevelBoxes :
          /\ args' = [boxes |-> [b \in {0} |-> [j \in 0..1 |-> IF j = 0 THEN b1 ELSE b2]]]
          /\ ret' = [levels |-> map_to_level(args'.boxes)]
    /\ pc' = "done"
    /\ UNCHANGED layer

NextLevel == MapToLevelCall

SpecLevel == InitLevel /\ [][NextLevel]_vars


(***************************************************************************)
(* RoiAlign.call                                                           *)
(***************************************************************************)
\* Bounds of the inputs tried: detections in a batch (batch * boxes per image),
\* the layer's top_k, and the number of pyramid feature maps passed in.
MaxDet == 4
MaxTopK == 2
MaxFpn == 2

\* Class score vectors (scores 9 and 5).
ClsVectors == {<<9, 1>>, <<2, 5>>}

Range(f) == {f[x] : x \in DOMAIN f}

\* K.max(classification, axis=-1)
MaxScores(classification) ==
    [b \in DOMAIN classification |->
        [n \in DOMAIN classification[b] |-> Max(Range(classification[b][n]))]]

\* tf.nn.top_k(scores, k, sorted=False) on one row: k distinct positions holding
\* the k largest entries, in an order the implementation chooses.
TopKRow(row, k) ==
    {ix \in [0..(k - 1) -> DOMAIN row] :
        /\ \A i, j \in 0..(k - 1) : i # j => ix[i] # ix[j]
        /\ \A n \in DOMAIN row \ Range(ix) : \A i \in 0..(k - 1) : row[ix[i]] >= row[n]}

top_k(scores, k) ==
    {ix \in [DOMAIN scores -> UNION {TopKRow(scores[b], k) : b \in DOMAIN scores}] :
        \A b \in DOMAIN scores : ix[b] \in TopKRow(scores[b], k)}

\* tf.batch_gather(params, indices)
batch_gather(params, indices) ==
    [b \in DOMAIN indices |-> [j \in DOMAIN indices[b] |-> params[b][indices[b][j]]]]

\* The positions <<b, j>> of a [batch, k] tensor in row-major order.
RowMajor(batch, k) == [r \in 1..(batch * k) |-> <<(r - 1) \div k, (r - 1) % k>>]

\* tf.where(K.equal(target_levels, i)): the positions holding i, in row-major order.
WhereLevel(target_levels, batch, k, i) ==
    LET Holds(p) == target_levels[p[1]][p[2]] = i
    IN  SelectSeq(RowMajor(batch, k), Holds)

\* tf.gather_nd(params, indices) for a list of <<b, j>> positions.
gather_nd(params, indices) ==
    [r \in 1..Len(indices) |-> params[indices[r][1]][indices[r][2]]]

\* tf.cast(level_indices[:, 0], tf.int32)
BoxIndicesMutant(level_indices) == [r \in 1..Len(level_indices) |-> level_indices[r][2]]

BoxIndices(level_indices) == [r \in 1..Len(level_indices) |-> level_indices[r][1]]

\* tf.image.crop_and_resize(image, boxes, box_ind, crop_size): crop r is taken
\* from image[box_ind[r]] at the normalised boxes[r] = <<y1, x1, y2, x2>>.
\* `image` is fpn[i], named by its index i.
crop_and_resize(image, boxes, box_ind, crop_size) ==
    [r \in 1..Len(boxes) |->
        [level |-> image, image |-> box_ind[r], box |-> boxes[r], size |-> crop_size]]

\* A real number n / d in lowest terms with d > 0; a division by zero gives
\* <<1, 0>> (inf), <<-1, 0>> (-inf) or <<0, 0>> (nan), as in floating point.
RECURSIVE GCD(_, _)
GCD(a, b) == IF b = 0 THEN a ELSE GCD(b, a % b)

Abs(n) == IF n < 0 THEN -n ELSE n

Rat(n, d) ==
    IF d = 0 THEN <<IF n > 0 THEN 1 ELSE IF n < 0 THEN -1 ELSE 0, 0>>
    ELSE LET g == GCD(Abs(n), Abs(d))
             sign == IF d < 0 THEN -1 ELSE 1
         IN  <<sign * (n \div g), sign * (d \div g)>>

\* level_boxes_reformat for one box <<x1, y1, x2, y2>> (in 1/Scale pixels):
\*   (y1 / image_shape[1] * fpn_shape[0]) / (fpn_shape[0] - 1),
\*   (x1 / image_shape[2] * fpn_shape[1]) / (fpn_shape[1] - 1),
\*   (y2 / image_shape[1] * fpn_shape[0] - 1) / (fpn_shape[0] - 1),
\*   (x2 / image_shape[2] * fpn_shape[1] - 1) / (fpn_shape[1] - 1)
\* Index i of the code is position i + 1 of a shape here.
BoxReformat(box, image_shape, fpn_shape) ==
    LET x1 == box[1]
        y1 == box[2]
        x2 == box[3]
        y2 == box[4]
    IN  <<Rat(y1 * fpn_shape[1], Scale * image_shape[2] * (fpn_shape[1] - 1)),
          Rat(x1 * fpn_shape[2], Scale * image_shape[3] * (fpn_shape[2] - 1)),
          Rat(y2 * fpn_shape[1] - Scale * image_shape[2],
              Scale * image_shape[2] * (fpn_shape[1] - 1)),
          Rat(x2 * fpn_shape[2] - Scale * image_shape[3],
              Scale * image_shape[3] * (fpn_shape[2] - 1))>>

\* One pass of the loop over the pyramid levels (i = 0 .. len(fpn) - 1).
LevelPass(in, boxes, classification, target_levels, k, crop_size, i) ==
    LET level_indices == WhereLevel(target_levels, in.batch, k, i)
        box_indices == BoxIndices(level_indices)
        level_boxes == gather_nd(boxes, level_indices)
        level_classification == gather_nd(classification, level_indices)
        fpn_shape == in.fpn_shapes[i]
        level_boxes_reformat ==
            [r \in 1..Len(level_boxes) |->
                BoxReformat(level_boxes[r], in.image_shape, fpn_shape)]
    IN  [boxes |-> level_boxes,
         classification |-> level_classification,
         rois |-> crop_and_resize(i, level_boxes_reformat, box_indices, crop_size)]

\* K.concatenate(parts, axis=0) of the lists built by passes 0 .. n - 1.
RECURSIVE ConcatPasses(_, _, _)
ConcatPasses(pass, field, n) ==
    IF n = 0 THEN <<>> ELSE ConcatPasses(pass, field, n - 1) \o pass[n - 1][field]

\* K.reshape(rows, [batch, k, ...]); fails unless there are batch * k rows.
ReshapeOk(rows, batch, k) == Len(rows) = batch * k
Reshape(rows, batch, k) ==
    [b \in 0..(batch - 1) |-> [j \in 0..(k - 1) |-> rows[b * k + j + 1]]]

\* The inputs of a call: boxes [batch, n, 4], classification [batch, n, classes]
\* and nfpn pyramid feature maps, for the shapes <<batch, n>> within MaxDet.
RoiShapes == {sh \in (1..MaxDet) \X (1..MaxDet) : sh[1] * sh[2] <= MaxDet}

\* The image is 512 high and 1024 wide; feature map i is 64 * 2^i times smaller
\* and has 256 channels.
ImageShape(batch) == <<batch, 512, 1024, 3>>
FpnShapes(batch, nfpn) ==
    [i \in 0..(nfpn - 1) |-> <<batch, 512 \div (64 * 2^i), 1024 \div (64 * 2^i), 256>>]

RoiInputsOf(batch, n) ==
        {[batch |-> batch, n |-> n, nfpn |-> nfpn, boxes |-> bx, classification |-> cl,
          image_shape |-> ImageShape(batch), fpn_shapes |-> FpnShapes(batch, nfpn)] :
            bx \in [0..(batch - 1) -> [0..(n - 1) -> RoiBoxes]],
            cl \in [0..(batch - 1) -> [0..(n - 1) -> ClsVectors]],
            nfpn \in 1..MaxFpn}

\* RoiAlign.call after the top-k selection returned `indices`.
RoiAlignResult(self, in, indices) ==
    LET k == Cardinality(DOMAIN indices[0])   \* K.shape(indices)[:2] = [batch, k]
        boxes == batch_gather(in.boxes, indices)
        classification == batch_gather(in.classification, indices)
        target_levels == map_to_level(boxes)
        pass == [i \in 0..(in.nfpn - 1) |->
                    LevelPass(in, boxes, classification, target_levels,
                              k, self.crop_size, i)]
        ordered_boxes == ConcatPasses(pass, "boxes", in.nfpn)
        ordered_classification == ConcatPasses(pass, "classification", in.nfpn)
        rois == ConcatPasses(pass, "rois", in.nfpn)
    IN  IF ReshapeOk(rois, in.batch, k)
        THEN [status |-> "ok",
              indices |-> indices,
              boxes |-> Reshape(ordered_boxes, in.batch, k),
              classification |-> Reshape(ordered_classification, in.batch, k),
              rois |-> Reshape(rois, in.batch, k)]
        ELSE [status |-> "InvalidArgumentError", op |-> "reshape", rows |-> Len(rois)]

\* The number of detections requested from tf.nn.top_k: k=self.top_k (the local
\* k = K.minimum(self.top_k, K.shape(boxes)[1]) is computed and not used).
RequestedK(self, in) == self.top_k

InitRoi ==
    /\ pc = "built"
    /\ \E k \in 1..MaxTopK :
          layer = [class |-> "RoiAlign", top_k |-> k, crop_size |-> <<14, 14>>]
    /\ args = None
    /\ ret = None

\* layer.call([image_shape, boxes, classification] + fpn)
RoiAlignCall ==
    /\ pc = "built"
    /\ \E sh \in RoiShapes : \E in \in RoiInputsOf(sh[1], sh[2]) :
          /\ args' = in
          /\ IF RequestedK(layer, in) > in.n
             THEN \* tf.nn.top_k: input must have at least k columns
                  ret' = [status |-> "InvalidArgumentError", op |-> "top_k"]
             ELSE \E indices \in top_k(MaxScores(in.classification), RequestedK(layer, in)) :
                  ret' = RoiAlignResult(layer, in, indices)
    /\ pc' = "done"
    /\ UNCHANGED layer

NextRoi == RoiAlignCall

SpecRoi == InitRoi /\ [][NextRoi]_vars


(***************************************************************************)
(* Claims about RoiAlign.call and RoiAlign.map_to_level                    *)
(***************************************************************************)
CallOk == pc = "done" /\ ret.status = "ok"

\* The detections the top-k selection kept from image b: box and class scores.
SelectedFrom(b) ==
    {[box |-> args.boxes[b][ret.indices[b][j]],
      cls |-> args.classification[b][ret.indices[b][j]]] : j \in DOMAIN ret.indices[b]}

\* C1 (as claimed): whenever RoiAlign.call returns, every row of output[b] (box,
\* classification and RoI crop) is one of the detections selected from input
\* image b, and its crop was taken from image b.
C1_PerImageOrder ==
    CallOk =>
        \A b \in DOMAIN ret.boxes : \A j \in DOMAIN ret.boxes[b] :
            /\ [box |-> ret.boxes[b][j], cls |-> ret.classification[b][j]] \in SelectedFrom(b)
            /\ ret.rois[b][j].image = b

\* The order in which the call lays out the selected detections: the positions
\* <<b, j>> of the selection, level by level, row-major within a level.
RECURSIVE LevelOrder(_, _, _, _)
LevelOrder(target_levels, batch, k, n) ==
    IF n = 0 THEN <<>>
    ELSE LevelOrder(target_levels, batch, k, n - 1)
            \o WhereLevel(target_levels, batch, k, n - 1)

\* C2: whenever RoiAlign.call returns, one common permutation of the selected
\* detections aligns the three outputs: in every output slot the box, the
\* classification vector and the RoI crop come from the same selected detection,
\* and the crop is taken from that detection's own image at its assigned level.
C2_RowsAligned ==
    CallOk =>
        LET k == layer.top_k
            sel_boxes == batch_gather(args.boxes, ret.indices)
            sel_cls == batch_gather(args.classification, ret.indices)
            order == LevelOrder(map_to_level(sel_boxes), args.batch, k, args.nfpn)
        IN  /\ Len(order) = args.batch * k
            /\ \A r, q \in 1..Len(order) : r # q => order[r] # order[q]
            /\ \A b \in 0..(args.batch - 1) : \A j \in 0..(k - 1) :
                  LET p == order[b * k + j + 1]
                      box == sel_boxes[p[1]][p[2]]
                  IN  /\ ret.boxes[b][j] = box
                      /\ ret.classification[b][j] = sel_cls[p[1]][p[2]]
                      /\ ret.rois[b][j].box =
                            BoxReformat(box, args.image_shape,
                                        args.fpn_shapes[LevelTable[box]])
                      /\ ret.rois[b][j].image = p[1]
                      /\ ret.rois[b][j].level = LevelTable[box]

\* A call on two images with top_k = 2 whose permutation is not the identity:
\* the second slot of output row 0 holds a level-0 detection of image 1.
C2_Witness ==
    /\ CallOk
    /\ args.batch = 2
    /\ layer.top_k = 2
    /\ ret.rois[0][1].image = 1
    /\ ret.rois[0][1].level = 0
    /\ ret.rois[1][0].level = 1
    /\ ret.classification[0][0] # ret.classification[0][1]

\* C3 (as claimed): when top_k exceeds the boxes available per image the call
\* does not fail and returns all available boxes of every image.
C3_TopKClamped ==
    (pc = "done" /\ layer.top_k > args.n) =>
        /\ ret.status = "ok"
        /\ \A b \in DOMAIN ret.boxes : Cardinality(DOMAIN ret.boxes[b]) = args.n

\* The level of the claim's formula, clip(floor(1 + log2(sqrt(w*h)/224)), 0, 4),
\* without the epsilon: sqrt(w*h)/224 >= 2^(L-1) iff w*h >= (224 * 2^(L-1))^2.
LevelWithoutEps(box) ==
    Max({min_level} \cup
        {L \in (min_level + 1)..max_level :
            BoxW(box) * BoxH(box) >=
                (Scale * canonical_size * 2^(L - canonical_level))
                    * (Scale * canonical_size * 2^(L - canonical_level))})

NonNegative(box) == BoxW(box) >= 0 /\ BoxH(box) >= 0

LevelCallDone == pc = "done" /\ "levels" \in DOMAIN ret

\* C4 (as claimed): every box with non-negative width and height gets the level
\* clip(floor(1 + log2(sqrt(w*h)/224)), 0, 4); in particular level 0 when its
\* area is below 224^2.
C4_LevelWithoutEps ==
    LevelCallDone =>
        \A j \in DOMAIN args.boxes[0] :
            NonNegative(args.boxes[0][j]) =>
                ret.levels[0][j] = LevelWithoutEps(args.boxes[0][j])

\* sqrt(w*h)/224 + 1e-7 < 1, in exact arithmetic.
BelowCanonical(box) ==
    ~BigGeq(BigMul(BigOf(BoxW(box) * BoxH(box)), BigSquare(BigOf(EpsInv))),
            BigSquare(BigMul(BigOf(Scale * canonical_size), BigOf(EpsInv - 1))))

\* C4 (amended): every box with non-negative width and height gets a level in
\* 0..4 that is non-decreasing in the box area, is the level of the formula
\* without epsilon or one above it, is 0 exactly when sqrt(w*h)/224 + 1e-7 < 1,
\* and is 4 when sqrt(w*h) >= 224 * 8.
C4_MapToLevel ==
    LevelCallDone =>
        \A j \in DOMAIN args.boxes[0] :
            LET box == args.boxes[0][j]
                lvl == ret.levels[0][j]
            IN  NonNegative(box) =>
                /\ lvl \in min_level..max_level
                /\ lvl \in {LevelWithoutEps(box), LevelWithoutEps(box) + 1}
                /\ (lvl = min_level) <=> BelowCanonical(box)
                /\ BoxW(box) * BoxH(box) >=
                        (8 * canonical_size * Scale) * (8 * canonical_size * Scale)
                     => lvl = max_level
                /\ \A i \in DOMAIN args.boxes[0] :
                      (/\ NonNegative(args.boxes[0][i])
                       /\ BoxW(args.boxes[0][i]) * BoxH(args.boxes[0][i])
                            <= BoxW(box) * BoxH(box))
                      => ret.levels[0][i] <= lvl

\* A box of area just below 224^2 that gets level 1, beside a box of level 4.
C4_Witness ==
    /\ LevelCallDone
    /\ NonNegative(args.boxes[0][0])
    /\ BoxW(args.boxes[0][0]) * BoxH(args.boxes[0][0])
          < (canonical_size * Scale) * (canonical_size * Scale)
    /\ ret.levels[0][0] = 1
    /\ ret.levels[0][1] = max_level


(***************************************************************************)
(* Layer names and graph tensors (semantic_head.py)                        *)
(*                                                                         *)
(* A name is a sequence of tokens: letters and suffixes, and decimal       *)
(* digits "0".."9".  A tensor is the output of a layer: the layer's name,  *)
(* its height, width and channels, and the names of the layer's inputs.    *)
(***************************************************************************)
DigitTokens == <<"0", "1", "2", "3", "4", "5", "6", "7", "8", "9">>

IsDigit(tok) == \E d \in 1..Len(DigitTokens) : DigitTokens[d] = tok
DigitValue(tok) == (CHOOSE d \in 1..Len(DigitTokens) : DigitTokens[d] = tok) - 1

\* str(level) for level >= 0
RECURSIVE StrOfInt(_)
StrOfInt(n) ==
    IF n < 10 THEN <<DigitTokens[n + 1]>>
    ELSE StrOfInt(n \div 10) \o <<DigitTokens[(n % 10) + 1]>>

\* int(re.findall(r'\d+', N)[0]): the first run of digits of the name
RECURSIVE ReadDigits(_, _)
ReadDigits(name, acc) ==
    IF name = <<>> \/ ~IsDigit(Head(name)) THEN acc
    ELSE ReadDigits(Tail(name), 10 * acc + DigitValue(Head(name)))

RECURSIVE LevelOfName(_)
LevelOfName(name) ==
    IF IsDigit(Head(name)) THEN ReadDigits(name, 0) ELSE LevelOfName(Tail(name))

Err(kind, what) == [err |-> kind, what |-> what]
IsErr(x) == "err" \in DOMAIN x

Tensor(name, h, w, c, ins) == [name |-> name, h |-> h, w |-> w, c |-> c, ins |-> ins]

CeilDiv(a, b) == (a + b - 1) \div b

\* Conv2D(filters, kernel, strides=s, padding='same', name=name)(x)
Conv2DMutant(filters, s, name, x) ==
    Tensor(name, Max({x.h \div s, 1}), Max({x.w \div s, 1}), filters, <<x.name>>)

Conv2D(filters, s, name, x) ==
    Tensor(name, CeilDiv(x.h, s), CeilDiv(x.w, s), filters, <<x.name>>)

\* BatchNormalization, Activation, Softmax, ImageNormalization2D: shape kept
SameShape(name, x) == Tensor(name, x.h, x.w, x.c, <<x.name>>)

\* MaxPool2D(pool_size=(2,2)): padding 'valid', strides = pool size
MaxPool2D(name, x) ==
    IF x.h < 2 \/ x.w < 2 THEN Err("ValueError", "negative dimension size")
    ELSE Tensor(name, (x.h - 2) \div 2 + 1, (x.w - 2) \div 2 + 1, x.c, <<x.name>>)

\* UpSampling2D(size=(2,2))
UpSampling2D(name, x) == Tensor(name, 2 * x.h, 2 * x.w, x.c, <<x.name>>)

\* UpsampleLike()([source, target]): source resized to target's height and width
UpsampleLike(name, source, target) ==
    Tensor(name, target.h, target.w, source.c, <<source.name, target.name>>)

\* TensorProduct(n): a dense transform of the channels
TensorProduct(n, name, x) == Tensor(name, x.h, x.w, n, <<x.name>>)

\* Add()([a, b]): the shapes must agree, a dimension of 1 broadcasting
DimsAgree(i, j) == i = j \/ i = 1 \/ j = 1
AddOk(a, b) == DimsAgree(a.h, b.h) /\ DimsAgree(a.w, b.w) /\ DimsAgree(a.c, b.c)
Add(name, a, b) ==
    IF AddOk(a, b)
    THEN Tensor(name, Max({a.h, b.h}), Max({a.w, b.w}), Max({a.c, b.c}),
                <<a.name, b.name>>)
    ELSE Err("ValueError", "Add: incompatible shapes")

Reverse(s) == [i \in 1..Len(s) |-> s[Len(s) + 1 - i]]

(***************************************************************************)
(* dc_block, dc_model                                                      *)
(***************************************************************************)
dc_block(x, n_filters, out) ==
    LET c1 == Conv2D(n_filters, 1, <<"conv2d">>, x)
        a1 == SameShape(<<"activation">>, SameShape(<<"batch_normalization">>, c1))
        c2 == Conv2D(n_filters, 1, <<"conv2d">>, a1)
        a2 == SameShape(<<"activation">>, SameShape(<<"batch_normalization">>, c2))
    IN  MaxPool2D(out, a2)

\* The backbone: five dc_blocks in a chain, named C1..C5.
RECURSIVE dc_chain(_, _, _)
dc_chain(x, n_filters, n) ==
    IF n = 0 THEN <<>>
    ELSE LET before == dc_chain(x, n_filters, n - 1)
             input == IF n = 1 THEN x ELSE before[n - 1]
         IN  IF n > 1 /\ IsErr(input) THEN before \o <<input>>
             ELSE before \o <<dc_block(input, n_filters, <<"c">> \o StrOfInt(n))>>

dc_model(input_tensor, n_filters) ==
    LET backbone_features == dc_chain(input_tensor, n_filters, 5)
        backbone_names == [i \in 1..5 |-> <<"C">> \o StrOfInt(i)]
    IN  IF \E i \in 1..5 : IsErr(backbone_features[i])
        THEN CHOOSE e \in Range(backbone_features) : IsErr(e)
        ELSE [names |-> backbone_names, features |-> backbone_features]

(***************************************************************************)
(* get_pyramid_layer_outputs                                               *)
(*                                                                         *)
(* A backbone name is a string, kept as the sequence of its characters.    *)
(***************************************************************************)
UpperCase ==
    <<"A", "B", "C", "D", "E", "F", "G", "H", "I", "J", "K", "L", "M">> \o
    <<"N", "O", "P", "Q", "R", "S", "T", "U", "V", "W", "X", "Y", "Z">>

LowerCase ==
    <<"a", "b", "c", "d", "e", "f", "g", "h", "i", "j", "k", "l", "m">> \o
    <<"n", "o", "p", "q", "r", "s", "t", "u", "v", "w", "x", "y", "z">>

\* c.lower() for one character
LowerChar(c) ==
    IF \E i \in 1..Len(UpperCase) : UpperCase[i] = c
    THEN LowerCase[CHOOSE i \in 1..Len(UpperCase) : UpperCase[i] = c]
    ELSE c

\* str(backbone).lower()
LowerMutant(name) == name

Lower(name) == [i \in 1..Len(name) |-> LowerChar(name[i])]

resnet_backbones == {<<"r", "e", "s", "n", "e", "t", "5", "0">>}
deepcell_backbones == {<<"d", "e", "e", "p", "c", "e", "l", "l">>}

\* applications.ResNet50(include_top=False, input_tensor=..) and the outputs of
\* its layers res2c_branch2c .. res5c_branch2c: stage L has stride 2^L and
\* 64 * 2^L channels; inputs smaller than 32 pixels are rejected.
ResNet50Outputs(input_tensor) ==
    IF input_tensor.h < 32 \/ input_tensor.w < 32
    THEN Err("ValueError", "input size")
    ELSE [outputs |-> [i \in 1..4 |->
            Tensor(<<"res">> \o StrOfInt(i + 1) \o <<"_branch2c">>,
                   CeilDiv(input_tensor.h, 2^(i + 1)), CeilDiv(input_tensor.w, 2^(i + 1)),
                   64 * 2^(i + 1), <<input_tensor.name>>)]]

\* get_pyramid_layer_outputs(backbone, inputs, **kwargs); the ValueError's
\* message ends with the names of both sets, joined (one_of).
get_pyramid_layer_outputs(backbone, inputs, kwargs) ==
    LET _backbone == Lower(backbone)
    IN  IF _backbone \in resnet_backbones
        THEN LET model == ResNet50Outputs(kwargs.input_tensor)
                 backbone_names == [i \in 1..4 |-> <<"C">> \o StrOfInt(i + 1)]
             IN  IF IsErr(model) THEN model
                 ELSE [names |-> backbone_names, features |-> model.outputs]
        ELSE IF _backbone \in deepcell_backbones
        THEN dc_model(kwargs.input_tensor, 32)
        ELSE [err |-> "ValueError", what |-> "Invalid value for backbone",
              one_of |-> resnet_backbones \cup deepcell_backbones]

(***************************************************************************)
(* create_pyramid_level, __create_pyramid_features                         *)
(***************************************************************************)
\* create_pyramid_level's default feature_size
DefaultFeatureSize == 256

\* Returns pyramid_final and pyramid_upsample, or the error of the Add; the
\* layers it created are kept beside them, in the order of their creation.
create_pyramid_level(backbone_input, upsamplelike_input, addition_input, level, feature_size) ==
    LET reduced_name == <<"C">> \o StrOfInt(level) \o <<"_reduced">>
        upsample_name == <<"P">> \o StrOfInt(level) \o <<"_upsampled">>
        addition_name == <<"P">> \o StrOfInt(level) \o <<"_merged">>
        final_name == <<"P">> \o StrOfInt(level)
        reduced == Conv2D(feature_size, 1, reduced_name, backbone_input)
        pyramid_upsample ==
            IF upsamplelike_input # None
            THEN UpsampleLike(upsample_name, reduced, upsamplelike_input)
            ELSE None
        pyramid ==
            IF addition_input # None THEN Add(addition_name, reduced, addition_input)
            ELSE reduced
    IN  IF IsErr(pyramid) THEN pyramid
        ELSE [pyramid_final |-> Conv2D(feature_size, 1, final_name, pyramid),
              pyramid_upsample |-> pyramid_upsample,
              layers |-> <<reduced>>
                         \o (IF upsamplelike_input # None THEN <<pyramid_upsample>> ELSE <<>>)
                         \o (IF addition_input # None THEN <<pyramid>> ELSE <<>>)
                         \o <<Conv2D(feature_size, 1, final_name, pyramid)>>]

\* The feature_size that __create_pyramid_features hands to create_pyramid_level:
\* none, so the callee's default applies.
LevelFeatureSize(feature_size) == DefaultFeatureSize

\* addition_input in pass i: pyramid_upsamples[-1], and None in the first pass.
AdditionInputMutant(pyramid_upsamples, i) ==
    IF i = 0 THEN None ELSE pyramid_upsamples[1]

AdditionInput(pyramid_upsamples, i) ==
    IF i = 0 THEN None ELSE pyramid_upsamples[Len(pyramid_upsamples)]

\* The state of the loop `for i in range(len(backbone_names))` after its first n
\* passes, over the reversed lists: the three lists built (and the layers
\* created so far), or the error raised.
RECURSIVE PyramidLoop(_, _, _, _)
PyramidLoop(names, features, feature_size, n) ==
    IF n = 0
    THEN [pyramid_names |-> <<>>, pyramid_finals |-> <<>>, pyramid_upsamples |-> <<>>,
          layers |-> <<>>]
    ELSE
      LET st == PyramidLoop(names, features, feature_size, n - 1)
          i == n - 1
          level == LevelOfName(names[i + 1])
          p_name == <<"P">> \o StrOfInt(level)
          last == Len(names) - 1
      IN  IF IsErr(st) THEN st
          ELSE IF i = 0 /\ i + 1 > last
          THEN Err("IndexError", "backbone_features[i+1]")
          ELSE
            LET upsamplelike_input == IF i # 0 /\ i = last THEN None ELSE features[i + 2]
                addition_input == AdditionInput(st.pyramid_upsamples, i)
                made == create_pyramid_level(features[i + 1], upsamplelike_input,
                                             addition_input, level,
                                             LevelFeatureSize(feature_size))
            IN  IF IsErr(made) THEN made
                ELSE [pyramid_names |-> Append(st.pyramid_names, p_name),
                      pyramid_finals |-> Append(st.pyramid_finals, made.pyramid_final),
                      pyramid_upsamples |-> Append(st.pyramid_upsamples, made.pyramid_upsample),
                      layers |-> st.layers \o made.layers]

\* pyramid_names.reverse(); pyramid_finals.reverse()
FinalOrderMutant(list) == list

FinalOrder(list) == Reverse(list)

\* __create_pyramid_features(backbone_names, backbone_features, feature_size)
create_pyramid_features(backbone_names, backbone_features, feature_size) ==
    LET names == Reverse(backbone_names)
        features == Reverse(backbone_features)
        st == PyramidLoop(names, features, feature_size, Len(names))
    IN  IF Len(names) = 0 THEN Err("IndexError", "backbone_names[0]")
        ELSE IF IsErr(st) THEN st
        ELSE
          LET N == names[1]
              F == features[1]
              P_minus_2_name == <<"P">> \o StrOfInt(LevelOfName(N) + 1)
              P_minus_2 == Conv2D(feature_size, 2, P_minus_2_name, F)
              P_minus_1_name == <<"P">> \o StrOfInt(LevelOfName(N) + 2)
              relu == SameShape(N \o <<"_relu">>, P_minus_2)
              P_minus_1 == Conv2D(feature_size, 2, P_minus_1_name, relu)
              pyramid_names == <<P_minus_1_name, P_minus_2_name>> \o st.pyramid_names
              pyramid_finals == <<P_minus_1, P_minus_2>> \o st.pyramid_finals
          IN  [names |-> FinalOrder(pyramid_names), features |-> FinalOrder(pyramid_finals),
               layers |-> st.layers \o <<P_minus_2, relu, P_minus_1>>]

(***************************************************************************)
(* semantic_upsample, semantic_prediction, __create_semantic_head, FPNet   *)
(***************************************************************************)
\* x after the first n passes of `for i in range(n_upsample)`.
RECURSIVE UpsampleLoop(_, _, _, _, _)
UpsampleLoop(x, n_upsample, n_filters, target, n) ==
    IF n <= 0 THEN x
    ELSE LET i == n - 1
             conv == Conv2D(n_filters, 1, <<"conv2d">>,
                            UpsampleLoop(x, n_upsample, n_filters, target, n - 1))
         IN  IF i = n_upsample - 1 /\ target # None
             THEN UpsampleLike(<<"upsample_like">>, conv, target)
             ELSE UpSampling2D(<<"up_sampling2d">>, conv)

\* Whether the final resize to `target` is made when no upsampling pass ran.
ResizeWithoutPassMutant(n_upsample) == FALSE

ResizeWithoutPass(n_upsample) == n_upsample = 0

semantic_upsample(x, n_upsample, n_filters, target) ==
    LET looped == UpsampleLoop(x, n_upsample, n_filters, target, n_upsample)
    IN  IF ResizeWithoutPass(n_upsample)
        THEN LET conv == Conv2D(n_filters, 1, <<"conv2d">>, looped)
             IN  IF target # None THEN UpsampleLike(<<"upsample_like">>, conv, target)
                 ELSE conv
        ELSE looped

\* semantic_sum after adding the first n semantic features.
RECURSIVE SemanticSum(_, _)
SemanticSum(semantic_features, n) ==
    IF n = 1 THEN semantic_features[1]
    ELSE LET sum == SemanticSum(semantic_features, n - 1)
         IN  IF IsErr(sum) THEN sum ELSE Add(<<"add">>, sum, semantic_features[n])

\* semantic_prediction's defaults: target_level=0, n_filters and n_dense 256
\* (semantic_upsample's own default n_filters is 256 too).
semantic_prediction(semantic_names, semantic_features, input_target, n_classes) ==
    IF Len(semantic_features) = 0 THEN Err("IndexError", "semantic_features[0]")
    ELSE
      LET semantic_sum == SemanticSum(semantic_features, Len(semantic_features))
          min_lvl == LevelOfName(semantic_names[Len(semantic_names)])
          n_upsample == min_lvl - 0
      IN  IF IsErr(semantic_sum) THEN semantic_sum
          ELSE
            LET x == semantic_upsample(semantic_sum, n_upsample, 256, input_target)
                dense == TensorProduct(256, <<"tensor_product">>, x)
                relu == SameShape(<<"activation">>,
                                  SameShape(<<"batch_normalization">>, dense))
                classes == TensorProduct(n_classes, <<"tensor_product">>, relu)
            IN  SameShape(<<"softmax">>, classes)

\* The lists semantic_names and semantic_features after the first n passes of
\* `for N, P in zip(pyramid_names, pyramid_features)` over the reversed lists.
RECURSIVE SemanticLoop(_, _, _, _, _)
SemanticLoop(names, features, target_level, n_filters, n) ==
    IF n = 0 THEN [semantic_names |-> <<>>, semantic_features |-> <<>>]
    ELSE LET st == SemanticLoop(names, features, target_level, n_filters, n - 1)
             level == LevelOfName(names[n])
             n_upsample == level - target_level
             target == IF Len(st.semantic_features) > 0
                       THEN st.semantic_features[Len(st.semantic_features)]
                       ELSE None
         IN  [semantic_names |-> Append(st.semantic_names, <<"Q">> \o StrOfInt(level)),
              semantic_features |->
                  Append(st.semantic_features,
                         semantic_upsample(features[n], n_upsample, n_filters, target))]

\* The order in which __create_semantic_head walks the lists it is given.
HeadOrderMutant(list) == list

HeadOrder(list) == Reverse(list)

\* __create_semantic_head(pyramid_names, pyramid_features, input_target,
\*                        target_level, n_classes, n_filters=128)
\* Returns x; the lists it built are kept beside it.
create_semantic_head(pyramid_names, pyramid_features, input_target, target_level, n_classes) ==
    LET names == HeadOrder(pyramid_names)
        features == HeadOrder(pyramid_features)
        count == Min({Len(names), Len(features)})
        st == SemanticLoop(names, features, target_level, 128, count)
        x == semantic_prediction(st.semantic_names, st.semantic_features,
                                 input_target, n_classes)
    IN  IF IsErr(x) THEN x
        ELSE [x |-> x,
              semantic_names |-> st.semantic_names,
              semantic_features |-> st.semantic_features]

Input(shape) == Tensor(<<"input">>, shape[1], shape[2], shape[3], <<>>)

\* fpn_names[0:-1]
AllButLastMutant(list) == list

AllButLast(list) == SubSeq(list, 1, Len(list) - 1)

\* FPNet(backbone='deepcell', input_shape, n_classes): required_channels=3,
\* dc_model's n_filters=32.  Returns the Model's output tensor; the pyramid and
\* the head's lists are kept beside it.
FPNet(input_shape, n_classes) ==
    LET inputs == Input(input_shape)
        norm == SameShape(<<"image_normalization2d">>, inputs)
        fixed_inputs == TensorProduct(3, <<"tensor_product">>, norm)
        model_kwargs == [input_tensor |-> fixed_inputs]
        backbone == get_pyramid_layer_outputs(<<"d", "e", "e", "p", "c", "e", "l", "l">>, inputs, model_kwargs)
    IN  IF IsErr(backbone) THEN backbone
        ELSE
          LET fpn == create_pyramid_features(backbone.names, backbone.features,
                                             DefaultFeatureSize)
          IN  IF IsErr(fpn) THEN fpn
              ELSE
                LET levels == {LevelOfName(fpn.names[i]) : i \in 1..Len(fpn.names)}
                    target_level == Min(levels)
                    head == create_semantic_head(AllButLast(fpn.names),
                                                 AllButLast(fpn.features),
                                                 inputs, target_level, n_classes)
                IN  IF IsErr(head) THEN head
                    ELSE [output |-> head.x, inputs |-> inputs, fpn |-> fpn,
                          head |-> head]

(***************************************************************************)
(* Calls of the assembly functions                                         *)
(***************************************************************************)
\* Image heights and widths tried; a 16 pixel side is too small for five blocks.
FpnSizes == {32, 64, 96, 100, 128, 131}
SmallSizes == {16}

\* Pyramid levels handed to the semantic head directly: P{lo}..P{hi}, the level
\* l feature being size \div 2^l wide and high, 256 channels.
HeadPyramid(size, lo, hi) ==
    [names |-> [i \in 1..(hi - lo + 1) |-> <<"P">> \o StrOfInt(lo + i - 1)],
     features |-> [i \in 1..(hi - lo + 1) |->
                      Tensor(<<"P">> \o StrOfInt(lo + i - 1),
                             size \div 2^(lo + i - 1), size \div 2^(lo + i - 1),
                             DefaultFeatureSize, <<>>)]]

InitFpn ==
    /\ pc = "built"
    /\ layer = None
    /\ args = None
    /\ ret = None

\* __create_pyramid_features on the levels C{lo}..C{hi} of a deepcell backbone.
CreatePyramidCall ==
    /\ pc = "built"
    /\ \E h \in FpnSizes, w \in FpnSizes, lo \in 1..5, hi \in 1..5,
          feature_size \in {128, DefaultFeatureSize} :
          LET backbone == dc_model(Input(<<h, w, 3>>), 32)
          IN  /\ lo <= hi
              /\ ~IsErr(backbone)
              /\ args' = [fn |-> "create_pyramid_features",
                          image |-> <<h, w>>,
                          backbone_names |-> SubSeq(backbone.names, lo, hi),
                          backbone_features |-> SubSeq(backbone.features, lo, hi),
                          feature_size |-> feature_size]
              /\ ret' = create_pyramid_features(args'.backbone_names,
                                                args'.backbone_features, feature_size)
    /\ pc' = "done"
    /\ UNCHANGED layer

\* __create_semantic_head on pyramid levels given finest-first or coarsest-first,
\* with or without an input_target.
SemanticHeadCall ==
    /\ pc = "built"
    /\ \E size \in {32, 100}, lo \in 0..2, hi \in 0..3, coarsest_first \in BOOLEAN,
          target \in {0} \cup FpnSizes, target_level \in 0..2 :
          LET pyramid == HeadPyramid(size, lo, hi)
              input_target == IF target = 0 THEN None ELSE Input(<<target, target + 1, 3>>)
          IN  /\ lo <= hi
              /\ args' = [fn |-> "create_semantic_head",
                          pyramid_names |-> IF coarsest_first THEN Reverse(pyramid.names)
                                            ELSE pyramid.names,
                          pyramid_features |-> IF coarsest_first
                                               THEN Reverse(pyramid.features)
                                               ELSE pyramid.features,
                          input_target |-> input_target,
                          target_level |-> target_level,
                          n_classes |-> 3]
              /\ ret' = create_semantic_head(args'.pyramid_names, args'.pyramid_features,
                                             input_target, target_level, 3)
    /\ pc' = "done"
    /\ UNCHANGED layer

\* FPNet('deepcell', (h, w, c), n_classes=n_classes)
FPNetCall ==
    /\ pc = "built"
    /\ \E h \in FpnSizes \cup SmallSizes, w \in FpnSizes \cup SmallSizes,
          c \in {1, 3}, n_classes \in {2, 3} :
          /\ args' = [fn |-> "FPNet", backbone |-> "deepcell",
                      input_shape |-> <<h, w, c>>, n_classes |-> n_classes]
          /\ ret' = FPNet(<<h, w, c>>, n_classes)
    /\ pc' = "done"
    /\ UNCHANGED layer

\* Backbone names tried.
BackboneNames ==
    {<<"d", "e", "e", "p", "c", "e", "l", "l">>,
     <<"D", "e", "e", "p", "C", "e", "l", "l">>,
     <<"D", "E", "E", "P", "C", "E", "L", "L">>,
     <<"r", "e", "s", "n", "e", "t", "5", "0">>,
     <<"R", "e", "s", "N", "e", "t", "5", "0">>,
     <<"R", "E", "S", "N", "E", "T", "5", "0">>,
     <<"r", "e", "s", "n", "e", "t", "1", "0", "1">>,
     <<"d", "e", "e", "p", "c", "e", "l">>,
     <<"v", "g", "g", "1", "6">>,
     <<>>,
     <<"d", "e", "e", "p", "c", "e", "l", "l", "2">>}

\* get_pyramid_layer_outputs(backbone, inputs, input_tensor=inputs)
GetPyramidLayerOutputsCall ==
    /\ pc = "built"
    /\ \E backbone \in BackboneNames,
          h \in FpnSizes \cup SmallSizes, w \in FpnSizes \cup SmallSizes :
          LET inputs == Input(<<h, w, 3>>)
          IN  /\ args' = [fn |-> "get_pyramid_layer_outputs", backbone |-> backbone,
                          inputs |-> inputs]
              /\ ret' = get_pyramid_layer_outputs(backbone, inputs,
                                                  [input_tensor |-> inputs])
    /\ pc' = "done"
    /\ UNCHANGED layer

NextFpn == CreatePyramidCall \/ SemanticHeadCall \/ FPNetCall \/ GetPyramidLayerOutputsCall

SpecFpn == InitFpn /\ [][NextFpn]_vars

(***************************************************************************)
(* Claims about __create_pyramid_features                                  *)
(***************************************************************************)
PyramidCall == pc = "done" /\ args.fn = "create_pyramid_features"
PyramidBuilt == PyramidCall /\ ~IsErr(ret)

\* The names P{lo}, ..., P{hi}.
PNames(lo, hi) == [i \in 1..(hi - lo + 1) |-> <<"P">> \o StrOfInt(lo + i - 1)]

\* C5: given n >= 2 backbone levels C{Lmin}..C{Lmax} in ascending order,
\* __create_pyramid_features returns n + 2 names and n + 2 tensors, index-aligned
\* (tensor i is the output of the layer named names[i]), named P{Lmin}..P{Lmax+2}
\* in ascending order; for C1..C5 these are P1..P7.
C5_PyramidNames ==
    (PyramidCall /\ Len(args.backbone_names) >= 2) =>
        LET n == Len(args.backbone_names)
            Lmin == LevelOfName(args.backbone_names[1])
            Lmax == LevelOfName(args.backbone_names[n])
        IN  /\ ~IsErr(ret)
            /\ Len(ret.names) = n + 2
            /\ Len(ret.features) = n + 2
            /\ ret.names = PNames(Lmin, Lmax + 2)
            /\ \A i \in 1..(n + 2) : ret.features[i].name = ret.names[i]
            /\ (Lmin = 1 /\ Lmax = 5) =>
                  ret.names = << <<"P", "1">>, <<"P", "2">>, <<"P", "3">>, <<"P", "4">>,
                                 <<"P", "5">>, <<"P", "6">>, <<"P", "7">> >>

\* The five levels C1..C5 giving the seven levels P1..P7.
C5_Witness ==
    /\ PyramidBuilt
    /\ args.backbone_names[1] = <<"C", "1">>
    /\ Len(args.backbone_names) = 5
    /\ ret.names[1] = <<"P", "1">>
    /\ ret.features[7].name = <<"P", "7">>

\* C6 (as claimed): given exactly one backbone level C{L}, the function completes
\* without error and returns a pyramid holding the two appended levels P{L+1}
\* and P{L+2}.
C6_SingleLevel ==
    (PyramidCall /\ Len(args.backbone_names) = 1) =>
        LET L == LevelOfName(args.backbone_names[1])
        IN  /\ ~IsErr(ret)
            /\ \E i, j \in 1..Len(ret.names) :
                  /\ ret.names[i] = <<"P">> \o StrOfInt(L + 1)
                  /\ ret.names[j] = <<"P">> \o StrOfInt(L + 2)

FloorHalf(x) == x \div 2
CeilHalf(x) == (x + 1) \div 2

\* C7 (as claimed): in the assembled pyramid every level's height and width are
\* the floor of half the next finer level's.
C7_FloorHalved ==
    PyramidBuilt =>
        \A i \in 1..(Len(ret.features) - 1) :
            /\ ret.features[i + 1].h = FloorHalf(ret.features[i].h)
            /\ ret.features[i + 1].w = FloorHalf(ret.features[i].w)

\* C7 (amended): for a deepcell backbone, adjacent backbone-derived levels are
\* floor-halved, and each of the two appended stride-2 levels has the ceiling of
\* half the next finer level's height and width.
C7_HalvedSizes ==
    PyramidBuilt =>
        LET n == Len(args.backbone_names)
        IN  /\ \A i \in 1..(n - 1) :
                  /\ ret.features[i + 1].h = FloorHalf(ret.features[i].h)
                  /\ ret.features[i + 1].w = FloorHalf(ret.features[i].w)
            /\ \A i \in n..(n + 1) :
                  /\ ret.features[i + 1].h = CeilHalf(ret.features[i].h)
                  /\ ret.features[i + 1].w = CeilHalf(ret.features[i].w)

\* A 96 pixel high image: P5 is 3 high and the appended P6 is 2 high.
C7_Witness ==
    /\ PyramidBuilt
    /\ args.image[1] = 96
    /\ Len(ret.features) = 7
    /\ ret.features[4].h = 6
    /\ ret.features[5].h = 3
    /\ ret.features[6].h = 2
    /\ ret.features[7].h = 1

\* C8 (as claimed): every returned pyramid level has exactly feature_size
\* channels, for any feature_size passed in.
C8_FeatureSize ==
    PyramidBuilt =>
        \A i \in 1..Len(ret.features) : ret.features[i].c = args.feature_size

(***************************************************************************)
(* Claims about the semantic head and FPNet                                *)
(***************************************************************************)
HeadBuilt == pc = "done" /\ args.fn = "create_semantic_head" /\ ~IsErr(ret)

\* C9: whenever an input_target is supplied and the head builds, the output's
\* height and width are input_target's, for every set of pyramid levels, either
\* order of the lists and every target_level.
C9_OutputIsTargetSize ==
    (HeadBuilt /\ args.input_target # None) =>
        /\ ret.x.h = args.input_target.h
        /\ ret.x.w = args.input_target.w

\* A head over several levels whose output is resized to a 131 x 132 target that
\* no doubling of the pyramid sizes reaches; and the finest level is P0.
C9_Witness ==
    /\ HeadBuilt
    /\ args.input_target # None
    /\ Len(args.pyramid_names) >= 2
    /\ ret.x.h = 131
    /\ ret.x.w = 132
    /\ \E i \in 1..Len(ret.semantic_names) : ret.semantic_names[i] = <<"Q", "0">>

FPNetBuilt == pc = "done" /\ args.fn = "FPNet" /\ ~IsErr(ret)

QNames(lo, hi) == [i \in 1..(hi - lo + 1) |-> <<"Q">> \o StrOfInt(lo + i - 1)]

PyValue(kind, vals) == [kind |-> kind, vals |-> vals]

PyNone == PyValue("NoneType", <<>>)

\* np.array(v)
NpArray(v) == PyValue("ndarray", v.vals)

\* isinstance(v, kinds)
IsInstance(v, kinds) == v.kind \in kinds

\* A dimension whose size is not known (None).
Unknown == -1

\* conv_utils.normalize_data_format(data_format); "None" is Python's None and
\* selects K.image_data_format(), 'channels_last' unless configured otherwise.
normalize_data_format(data_format) ==
    IF data_format = "None" THEN "channels_last" ELSE data_format

\* AnchorParameters.default.ratios = [0.5, 1, 2], in tenths.
DefaultRatios == PyValue("ndarray", <<5, 10, 20>>)

\* AnchorParameters.default.scales = [2^0, 2^(1/3), 2^(2/3)], in tenths (rounded).
DefaultScales == PyValue("ndarray", <<10, 13, 16>>)

\* The ratios or scales attribute that Anchors.__init__ stores for an argument.
AnchorsAttr(v, default) ==
    IF v = PyNone THEN default
    ELSE IF IsInstance(v, {"list"}) THEN NpArray(v)
    ELSE v

\* Anchors(size, stride, ratios, scales, data_format)
Anchors(size, stride, ratios, scales, data_format) ==
    LET r == AnchorsAttr(ratios, DefaultRatios)
        s == AnchorsAttr(scales, DefaultScales)
    IN  [class |-> "Anchors",
         data_format |-> normalize_data_format(data_format),
         size |-> size,
         stride |-> stride,
         ratios |-> r,
         scales |-> s,
         num_anchors |-> Len(r.vals) * Len(s.vals)]

\* None not in input_shape[1:]
NoneNotIn(input_shape) == \A i \in 2..Len(input_shape) : input_shape[i] # Unknown

\* Anchors.compute_output_shape(input_shape); input_shape[i] of the code is
\* input_shape[i + 1] here.
AnchorsComputeOutputShape(self, input_shape) ==
    IF NoneNotIn(input_shape)
    THEN LET total == IF self.data_format = "channels_first"
                      THEN input_shape[3] * input_shape[4] * self.num_anchors
                      ELSE input_shape[2] * input_shape[3] * self.num_anchors
         IN  <<input_shape[1], total, 4>>
    ELSE <<input_shape[1], Unknown, 4>>

\* v.tolist(): defined for numpy arrays only.
HasToList(v) == IsInstance(v, {"ndarray"})
ToList(v) == PyValue("list", v.vals)

\* Anchors.get_config()
AnchorsGetConfig(self) ==
    IF ~HasToList(self.ratios) \/ ~HasToList(self.scales)
    THEN Err("AttributeError", "tolist")
    ELSE [size |-> self.size,
          stride |-> self.stride,
          ratios |-> ToList(self.ratios),
          scales |-> ToList(self.scales),
          data_format |-> self.data_format]

\* The forms of ratios and scales tried: omitted, list, tuple and numpy array.
AnchorForms ==
    {PyNone, PyValue("list", <<5, 10, 20>>), PyValue("list", <<10>>),
     PyValue("tuple", <<5, 10>>), PyValue("ndarray", <<10, 20>>)}

DataFormats == {"None", "channels_last", "channels_first"}

\* Dimensions of the input shapes tried.
ShapeDims == {Unknown, 1, 2, 3}

InitLayers ==
    /\ pc = "start"
    /\ layer = None
    /\ args = None
    /\ ret = None

\* layer = Anchors(size=32, stride=8, ratios=.., scales=.., data_format=..)
AnchorsInit ==
    /\ pc = "start"
    /\ \E ratios \in AnchorForms, scales \in AnchorForms, data_format \in DataFormats :
          /\ args' = [class |-> "Anchors", ratios |-> ratios, scales |-> scales,
                      data_format |-> data_format]
          /\ layer' = Anchors(32, 8, ratios, scales, data_format)
    /\ pc' = "built"
    /\ UNCHANGED ret

\* layer.compute_output_shape(input_shape) for a 4-dimensional input shape
AnchorsComputeOutputShapeCall ==
    /\ pc = "built"
    /\ layer.class = "Anchors"
    /\ \E input_shape \in [1..4 -> ShapeDims] :
          /\ args' = [method |-> "compute_output_shape", input_shape |-> input_shape]
          /\ ret' = AnchorsComputeOutputShape(layer, input_shape)
    /\ pc' = "done"
    /\ UNCHANGED layer

\* config = layer.get_config()
AnchorsGetConfigCall ==
    /\ pc = "built"
    /\ layer.class = "Anchors"
    /\ args' = [method |-> "get_config", original |-> layer]
    /\ ret' = AnchorsGetConfig(layer)
    /\ pc' = "done"
    /\ UNCHANGED layer

\* layer = Anchors(**config) with the config that get_config returned
AnchorsFromConfig ==
    /\ pc = "done"
    /\ layer.class = "Anchors"
    /\ args.method = "get_config"
    /\ ~IsErr(ret)
    /\ layer' = Anchors(ret.size, ret.stride, ret.ratios, ret.scales, ret.data_format)
    /\ pc' = "rebuilt"
    /\ UNCHANGED <<args, ret>>

\* The types that RegressBoxes.__init__ converts with np.array.
ArrayLikeMutant == {"list"}

ArrayLike == {"list", "tuple"}

\* The array RegressBoxes.__init__ stores for mean or std (None already replaced
\* by the default), or the ValueError it raises.
RegressAttr(v, what) ==
    IF IsInstance(v, ArrayLike) THEN NpArray(v)
    ELSE IF ~IsInstance(v, {"ndarray"}) THEN Err("ValueError", what)
    ELSE v

\* RegressBoxes(mean, std, data_format); the defaults are [0, 0, 0, 0] and
\* [0.2, 0.2, 0.2, 0.2] (in tenths).  The check of mean precedes that of std.
RegressBoxes(mean, std, data_format) ==
    LET mean0 == IF mean = PyNone THEN NpArray(PyValue("list", <<0, 0, 0, 0>>)) ELSE mean
        std0 == IF std = PyNone THEN NpArray(PyValue("list", <<2, 2, 2, 2>>)) ELSE std
        mean1 == RegressAttr(mean0, "mean")
        std1 == RegressAttr(std0, "std")
    IN  IF IsErr(mean1) THEN mean1
        ELSE IF IsErr(std1) THEN std1
        ELSE [class |-> "RegressBoxes",
              data_format |-> normalize_data_format(data_format),
              mean |-> mean1,
              std |-> std1]

\* The values of mean and std tried: omitted, array-like, and a float, a string
\* and a dict.
RegressForms ==
    {PyNone, PyValue("list", <<0, 0, 0, 0>>), PyValue("tuple", <<1, 1, 2, 2>>),
     PyValue("ndarray", <<1, 1, 1, 1>>), PyValue("float", <<2>>),
     PyValue("str", <<>>), PyValue("dict", <<>>)}

\* layer = RegressBoxes(mean=.., std=.., data_format=..)
RegressBoxesInit ==
    /\ pc = "start"
    /\ \E mean \in RegressForms, std \in RegressForms, data_format \in DataFormats :
          LET made == RegressBoxes(mean, std, data_format)
          IN  /\ args' = [class |-> "RegressBoxes", mean |-> mean, std |-> std,
                          data_format |-> data_format]
              /\ IF IsErr(made)
                 THEN pc' = "raised" /\ ret' = made /\ UNCHANGED layer
                 ELSE pc' = "built" /\ layer' = made /\ UNCHANGED ret

\* (height, width) of the image for ClipBoxes.call; shape[i] of the code is
\* shape[i + 1] here.
ClipHeightWidthMutant(self, shape) == <<shape[2], shape[3]>>

ClipHeightWidth(self, shape) ==
    IF self.data_format = "channels_first" THEN <<shape[3], shape[4]>>
    ELSE <<shape[2], shape[3]>>

\* tf.clip_by_value(t, clip_value_min, clip_value_max)
clip_by_value(t, clip_value_min, clip_value_max) ==
    Max({Min({t, clip_value_max}), clip_value_min})

\* ClipBoxes.call([image, boxes]) for an image of the given shape
ClipBoxesCallResult(self, shape, boxes) ==
    LET hw == ClipHeightWidth(self, shape)
        height == hw[1]
        width == hw[2]
    IN  [b \in DOMAIN boxes |-> [n \in DOMAIN boxes[b] |->
            <<clip_by_value(boxes[b][n][1], 0, width),
              clip_by_value(boxes[b][n][2], 0, height),
              clip_by_value(boxes[b][n][3], 0, width),
              clip_by_value(boxes[b][n][4], 0, height)>>]]

\* layer = ClipBoxes(data_format=..)
ClipBoxesInit ==
    /\ pc = "start"
    /\ \E data_format \in DataFormats :
          /\ args' = [class |-> "ClipBoxes", data_format |-> data_format]
          /\ layer' = [class |-> "ClipBoxes",
                       data_format |-> normalize_data_format(data_format)]
    /\ pc' = "built"
    /\ UNCHANGED ret

\* Image dimensions and box coordinates tried for ClipBoxes.call.
ImageDims == {1, 3, 5}
ClipCoords == {-2, 0, 2, 4, 7}

\* layer.call([image, boxes]) on one image with one box
ClipBoxesCall ==
    /\ pc = "built"
    /\ layer.class = "ClipBoxes"
    /\ \E d \in [2..4 -> ImageDims], box \in [1..4 -> ClipCoords] :
          LET shape == [i \in 1..4 |-> IF i = 1 THEN 1 ELSE d[i]]
              boxes == [b \in {0} |-> [n \in {0} |-> box]]
          IN  /\ args' = [method |-> "call", image_shape |-> shape, boxes |-> boxes]
              /\ ret' = ClipBoxesCallResult(layer, shape, boxes)
    /\ pc' = "done"
    /\ UNCHANGED layer

\* The product of the dimensions of a shape from position `from` on.
RECURSIVE ProdFrom(_, _)
ProdFrom(shape, from) ==
    IF from > Len(shape) THEN 1 ELSE shape[from] * ProdFrom(shape, from + 1)

\* A tensor, by its shape alone.
TensorOfShape(shape) == [shape |-> shape]

\* K.reshape(x, (d0, d1, -1)) of a tensor with `size` elements: a tensor of shape
\* (d0, d1, size / (d0 * d1)), or an error when the division leaves a remainder.
ReshapeInferLast(size, d0, d1) ==
    IF size % (d0 * d1) # 0 THEN Err("InvalidArgumentError", "reshape")
    ELSE TensorOfShape(<<d0, d1, size \div (d0 * d1)>>)

\* K.concatenate([a, b], axis=2): the leading dimensions must agree.
ConcatenateAxis2(a, b) ==
    IF IsErr(b) THEN b
    ELSE IF a.shape[1] # b.shape[1] \/ a.shape[2] # b.shape[2]
         THEN Err("InvalidArgumentError", "concatenate")
    ELSE TensorOfShape(<<a.shape[1], a.shape[2], a.shape[3] + b.shape[3]>>)

\* The shape of ConcatenateBoxes.call([boxes, other])
ConcatenateBoxesCallShape(boxes_shape, other_shape) ==
    ConcatenateAxis2(TensorOfShape(boxes_shape),
        ReshapeInferLast(ProdFrom(other_shape, 1), boxes_shape[1], boxes_shape[2]))

\* ConcatenateBoxes.compute_output_shape([boxes_shape, other_shape]); K.prod is
\* taken by its value.
ConcatenateBoxesOutputShape(boxes_shape, other_shape) ==
    <<boxes_shape[1], boxes_shape[2], ProdFrom(other_shape, 3) + 4>>

\* The shape of ConcatenateBoxesMasks.call([detections, masks]);
\* boxes = detections[:, :, :4]
ConcatenateBoxesMasksCallShape(detections_shape, masks_shape) ==
    LET boxes_shape == <<detections_shape[1], detections_shape[2],
                         Min({detections_shape[3], 4})>>
    IN  ConcatenateAxis2(TensorOfShape(boxes_shape),
            ReshapeInferLast(ProdFrom(masks_shape, 1), masks_shape[1], boxes_shape[2]))

\* ConcatenateBoxesMasks.compute_output_shape([detections_shape, masks_shape])
ConcatenateBoxesMasksOutputShape(detections_shape, masks_shape) ==
    <<masks_shape[1], masks_shape[2], masks_shape[3] * masks_shape[4]>>

\* layer = ConcatenateBoxes() or layer = ConcatenateBoxesMasks()
ConcatenateInit ==
    /\ pc = "start"
    /\ \E class \in {"ConcatenateBoxes", "ConcatenateBoxesMasks"} :
          /\ args' = [class |-> class]
          /\ layer' = [class |-> class]
    /\ pc' = "built"
    /\ UNCHANGED ret

\* Shapes tried: (batch, N, 4) boxes or (batch, N, 6) detections, and an
\* auxiliary tensor (batch, N, d1 [, d2 [, d3]]).
LeadDims == {1, 2, 3}
AuxDims == {1, 2, 3}
AuxShapes(batch, n) ==
    UNION {{[i \in 1..(r + 2) |-> IF i = 1 THEN batch ELSE IF i = 2 THEN n ELSE d[i - 2]] :
                d \in [1..r -> AuxDims]} : r \in 1..3}

\* layer.call([boxes, other]) for ConcatenateBoxes
ConcatenateBoxesCall ==
    /\ pc = "built"
    /\ layer.class = "ConcatenateBoxes"
    /\ \E batch \in LeadDims, n \in LeadDims : \E other_shape \in AuxShapes(batch, n) :
          /\ args' = [method |-> "call", first |-> <<batch, n, 4>>, second |-> other_shape]
          /\ ret' = [called |-> ConcatenateBoxesCallShape(<<batch, n, 4>>, other_shape)]
    /\ pc' = "called"
    /\ UNCHANGED layer

\* layer.compute_output_shape([boxes_shape, other_shape]) for the same inputs
ConcatenateBoxesShape ==
    /\ pc = "called"
    /\ layer.class = "ConcatenateBoxes"
    /\ ret' = [called |-> ret.called,
               computed |-> ConcatenateBoxesOutputShape(args.first, args.second)]
    /\ pc' = "done"
    /\ UNCHANGED <<layer, args>>

\* layer.call([detections, masks]) for ConcatenateBoxesMasks; the masks have at
\* least four dimensions
ConcatenateBoxesMasksCall ==
    /\ pc = "built"
    /\ layer.class = "ConcatenateBoxesMasks"
    /\ \E batch \in LeadDims, n \in LeadDims, d \in {4, 6} :
       \E masks_shape \in {sh \in AuxShapes(batch, n) : Len(sh) >= 4} :
          /\ args' = [method |-> "call", first |-> <<batch, n, d>>, second |-> masks_shape]
          /\ ret' = [called |-> ConcatenateBoxesMasksCallShape(<<batch, n, d>>, masks_shape)]
    /\ pc' = "called"
    /\ UNCHANGED layer

\* layer.compute_output_shape([detections_shape, masks_shape]) for the same inputs
ConcatenateBoxesMasksShape ==
    /\ pc = "called"
    /\ layer.class = "ConcatenateBoxesMasks"
    /\ ret' = [called |-> ret.called,
               computed |-> ConcatenateBoxesMasksOutputShape(args.first, args.second)]
    /\ pc' = "done"
    /\ UNCHANGED <<layer, args>>

NextLayers ==
    \/ ConcatenateInit
    \/ ConcatenateBoxesCall
    \/ ConcatenateBoxesShape
    \/ ConcatenateBoxesMasksCall
    \/ ConcatenateBoxesMasksShape
    \/ AnchorsInit
    \/ AnchorsComputeOutputShapeCall
    \/ AnchorsGetConfigCall
    \/ AnchorsFromConfig
    \/ RegressBoxesInit
    \/ ClipBoxesInit
    \/ ClipBoxesCall

SpecLayers == InitLayers /\ [][NextLayers]_vars

(***************************************************************************)
(* Claims about Anchors                                                    *)
(***************************************************************************)
\* The two spatial dimensions of an input shape under a data format.
SpatialDims(data_format, input_shape) ==
    IF data_format = "channels_first" THEN <<input_shape[3], input_shape[4]>>
    ELSE <<input_shape[2], input_shape[3]>>

\* C11 (as claimed): Anchors.compute_output_shape returns
\* (batch, rows * cols * num_anchors, 4) whenever both spatial dimensions of the
\* input shape are known and (batch, None, 4) only when one is unknown, with
\* num_anchors = |ratios| * |scales|.
C11_StaticShape ==
    (pc = "done" /\ layer.class = "Anchors" /\ args.method = "compute_output_shape") =>
        LET sp == SpatialDims(layer.data_format, args.input_shape)
            num_anchors == Len(layer.ratios.vals) * Len(layer.scales.vals)
        IN  IF sp[1] # Unknown /\ sp[2] # Unknown
            THEN ret = <<args.input_shape[1], sp[1] * sp[2] * num_anchors, 4>>
            ELSE ret = <<args.input_shape[1], Unknown, 4>>

\* C16 (as claimed): for every accepted form of ratios and scales get_config
\* succeeds and returns size, stride, ratios, scales and data_format, and a new
\* Anchors built from that config has the same ratios, scales and num_anchors.
C16_ConfigRoundTrip ==
    /\ (pc = "done" /\ layer.class = "Anchors" /\ args.method = "get_config") =>
          /\ ~IsErr(ret)
          /\ DOMAIN ret = {"size", "stride", "ratios", "scales", "data_format"}
    /\ (pc = "rebuilt" /\ layer.class = "Anchors") =>
          /\ layer.ratios.vals = args.original.ratios.vals
          /\ layer.scales.vals = args.original.scales.vals
          /\ layer.num_anchors = args.original.num_anchors


(***************************************************************************)
(* Claims about ClipBoxes and RegressBoxes                                 *)
(***************************************************************************)
\* C12: for arbitrary input boxes (negative or larger than the image
\* included) every box returned by ClipBoxes.call has x1 and x2 in [0, width]
\* and y1 and y2 in [0, height], height and width being image axes 1, 2 for
\* channels_last and 2, 3 for channels_first; coordinates already inside the
\* bounds are returned unchanged.
C12_ClippedToImage ==
    (pc = "done" /\ layer.class = "ClipBoxes") =>
        LET hw == SpatialDims(layer.data_format, args.image_shape)
            bound == <<hw[2], hw[1], hw[2], hw[1]>>
        IN  \A b \in DOMAIN ret : \A n \in DOMAIN ret[b] : \A i \in 1..4 :
                /\ ret[b][n][i] \in 0..bound[i]
                /\ args.boxes[b][n][i] \in 0..bound[i]
                     => ret[b][n][i] = args.boxes[b][n][i]

\* A channels_first call on a 5 high, 1 wide image: x2 = 7 is clipped to the
\* width and y1 = -2 to zero, y2 = 4 is kept.
C12_Witness ==
    /\ pc = "done"
    /\ layer.class = "ClipBoxes"
    /\ layer.data_format = "channels_first"
    /\ args.image_shape = <<1, 3, 5, 1>>
    /\ args.boxes[0][0] = <<0, -2, 7, 4>>
    /\ ret[0][0] = <<0, 0, 1, 4>>

\* mean or std is not None and not a numpy array, list or tuple.
NotArrayLike(v) == v # PyNone /\ v.kind \notin {"ndarray", "list", "tuple"}

\* C14: constructing RegressBoxes raises ValueError exactly when a supplied
\* mean or std is not None and is not a numpy array, list or tuple; otherwise
\* the layer stores mean and std as arrays of the given values, with defaults
\* mean = [0, 0, 0, 0] and std = [0.2, 0.2, 0.2, 0.2].
C14_RegressBoxesInit ==
    (pc \in {"built", "raised"} /\ args.class = "RegressBoxes") =>
        IF NotArrayLike(args.mean) \/ NotArrayLike(args.std)
        THEN pc = "raised" /\ ret.err = "ValueError"
        ELSE /\ pc = "built"
             /\ layer.mean.kind = "ndarray"
             /\ layer.std.kind = "ndarray"
             /\ layer.mean.vals = (IF args.mean = PyNone THEN <<0, 0, 0, 0>> ELSE args.mean.vals)
             /\ layer.std.vals = (IF args.std = PyNone THEN <<2, 2, 2, 2>> ELSE args.std.vals)

\* A tuple mean with the default std is accepted and stored as an array.
C14_Witness ==
    /\ pc = "built"
    /\ args.class = "RegressBoxes"
    /\ args.mean = PyValue("tuple", <<1, 1, 2, 2>>)
    /\ args.std = PyNone
    /\ layer.mean = PyValue("ndarray", <<1, 1, 2, 2>>)
    /\ layer.std = PyValue("ndarray", <<2, 2, 2, 2>>)


(***************************************************************************)
(* Claims about ConcatenateBoxes and ConcatenateBoxesMasks                 *)
(***************************************************************************)
\* C13 (as claimed): for ConcatenateBoxes and for ConcatenateBoxesMasks,
\* compute_output_shape reports exactly the shape that call produces,
\* (batch, N, 4 + product of the auxiliary or mask tensor's dimensions after
\* the first two).
C13_ShapeAgrees ==
    (pc = "done" /\ layer.class \in {"ConcatenateBoxes", "ConcatenateBoxesMasks"}) =>
        /\ ~IsErr(ret.called)
        /\ ret.computed = ret.called.shape
        /\ ret.called.shape = <<args.first[1], args.first[2], 4 + ProdFrom(args.second, 3)>>


(***************************************************************************)
(* Claims about get_pyramid_layer_outputs                                  *)
(***************************************************************************)
BackboneCall == pc = "done" /\ args.fn = "get_pyramid_layer_outputs"

\* The spellings of the two backbone names among the names tried.
DeepcellSpellings == {<<"d", "e", "e", "p", "c", "e", "l", "l">>, <<"D", "e", "e", "p", "C", "e", "l", "l">>, <<"D", "E", "E", "P", "C", "E", "L", "L">>}
ResnetSpellings == {<<"r", "e", "s", "n", "e", "t", "5", "0">>, <<"R", "e", "s", "N", "e", "t", "5", "0">>, <<"R", "E", "S", "N", "E", "T", "5", "0">>}

\* The names C{lo}, ..., C{hi}.
CNames(lo, hi) == [i \in 1..(hi - lo + 1) |-> <<"C">> \o StrOfInt(lo + i - 1)]

\* C15: get_pyramid_layer_outputs accepts exactly the names 'resnet50' and
\* 'deepcell' in any letter case; every other name raises a ValueError that
\* lists both valid names and returns nothing; 'deepcell' returns the levels
\* C1..C5 and 'resnet50' the levels C2..C5, ascending and index-aligned with the
\* features (feature i is 2^level times smaller than the input), unless the
\* backbone itself rejects the input size.
C15_BackboneNames ==
    BackboneCall =>
        LET lo == IF args.backbone \in DeepcellSpellings THEN 1 ELSE 2
        IN  IF args.backbone \in DeepcellSpellings \cup ResnetSpellings
            THEN \/ IsErr(ret) /\ ret.err = "ValueError" /\ "one_of" \notin DOMAIN ret
                 \/ /\ ~IsErr(ret)
                    /\ ret.names = CNames(lo, 5)
                    /\ Len(ret.features) = Len(ret.names)
                    /\ \A i \in 1..Len(ret.features) :
                          LET level == LevelOfName(ret.names[i])
                          IN  /\ ret.features[i].h \in
                                    {args.inputs.h \div 2^level, CeilDiv(args.inputs.h, 2^level)}
                              /\ ret.features[i].w \in
                                    {args.inputs.w \div 2^level, CeilDiv(args.inputs.w, 2^level)}
            ELSE /\ IsErr(ret)
                 /\ ret.err = "ValueError"
                 /\ "one_of" \in DOMAIN ret
                 /\ ret.one_of = {<<"r", "e", "s", "n", "e", "t", "5", "0">>,
                                  <<"d", "e", "e", "p", "c", "e", "l", "l">>}

\* 'DeepCell' on a 96 x 128 input gives C1..C5 with C5 of 3 x 4.
C15_Witness ==
    /\ BackboneCall
    /\ args.backbone = <<"D", "e", "e", "p", "C", "e", "l", "l">>
    /\ args.inputs.h = 96
    /\ args.inputs.w = 128
    /\ ~IsErr(ret)
    /\ Len(ret.names) = 5
    /\ ret.features[5].h = 3
    /\ ret.features[5].w = 4


(***************************************************************************)
(* FilterDetections (deepcell.layers), with its default configuration:     *)
(* class-specific non-maximum suppression.  Scores are kept in hundredths; *)
(* detections and output slots are numbered from 1, labels from 0.         *)
(***************************************************************************)
\* FilterDetections' defaults
max_detections == 300
\* score_threshold = 0.05 and nms_threshold = 0.5
score_threshold == 5
nms_threshold == <<1, 2>>

\* The value that fills the unused output slots.
Fill == -1

BoxArea(a) == (a[3] - a[1]) * (a[4] - a[2])

\* The area that two boxes share.
Intersection(a, b) ==
    Max({0, Min({a[3], b[3]}) - Max({a[1], b[1]})})
        * Max({0, Min({a[4], b[4]}) - Max({a[2], b[2]})})

\* IoU(a, b) > nms_threshold
OverlapsMutant(a, b) == FALSE

Overlaps(a, b) ==
    /\ BoxArea(a) > 0
    /\ BoxArea(b) > 0
    /\ nms_threshold[2] * Intersection(a, b)
          > nms_threshold[1] * (BoxArea(a) + BoxArea(b) - Intersection(a, b))

\* The orders of the detections in S by descending score; detections of equal
\* score come in an order the implementation chooses.
DescOrders(S, score) ==
    {o \in [1..Cardinality(S) -> S] :
        /\ \A i, j \in 1..Cardinality(S) : i # j => o[i] # o[j]
        /\ \A i \in 1..(Cardinality(S) - 1) : score[o[i]] >= score[o[i + 1]]}

\* tf.image.non_max_suppression along `order`: the detections selected among
\* the first n, each overlapping none selected before it, at most
\* max_detections of them.
RECURSIVE NonMaxSuppression(_, _, _)
NonMaxSuppression(boxes, order, n) ==
    IF n = 0 THEN <<>>
    ELSE LET selected == NonMaxSuppression(boxes, order, n - 1)
         IN  IF /\ Len(selected) < max_detections
                /\ \A k \in 1..Len(selected) : ~Overlaps(boxes[selected[k]], boxes[order[n]])
             THEN Append(selected, order[n])
             ELSE selected

\* The detections of class c that pass the score threshold and the suppression,
\* as <<index, label>> pairs: every outcome the implementation may produce.
ClassDetections(boxes, classification, c) ==
    LET scores == [i \in 1..Len(boxes) |-> classification[i][c + 1]]
        above == {i \in 1..Len(boxes) : scores[i] > score_threshold}
    IN  {LET kept == NonMaxSuppression(boxes, order, Len(order))
         IN  [k \in 1..Len(kept) |-> <<kept[k], c>>] : order \in DescOrders(above, scores)}

\* The detections of the classes 0 .. c concatenated, class by class.
RECURSIVE AllDetections(_, _, _)
AllDetections(boxes, classification, c) ==
    IF c < 0 THEN {<<>>}
    ELSE {before \o these :
            before \in AllDetections(boxes, classification, c - 1),
            these \in ClassDetections(boxes, classification, c)}

\* An output of max_detections slots: the rows picked for the leading slots,
\* Fill (or a row of Fill) in the others.
Padded(picked, fill) ==
    [slot \in 1..max_detections |-> IF slot <= Len(picked) THEN picked[slot] ELSE fill]

\* filter_detections on one image: the top max_detections detections by score,
\* gathered from the inputs and padded.
FilterImage(boxes, classification, other) ==
    LET nclasses == Len(classification[1])
    IN  {LET m == Min({max_detections, Len(order)})
             top == SubSeq(order, 1, m)
         IN  [boxes |-> Padded([k \in 1..m |-> boxes[top[k][1]]], <<Fill, Fill, Fill, Fill>>),
              scores |-> Padded([k \in 1..m |-> classification[top[k][1]][top[k][2] + 1]], Fill),
              labels |-> Padded([k \in 1..m |-> top[k][2]], Fill),
              other |-> [o \in 1..Len(other) |->
                            Padded([k \in 1..m |-> other[o][top[k][1]]],
                                   IF o = 1 THEN <<Fill, Fill>> ELSE Fill)]] :
         order \in UNION {DescOrders(Range(dets),
                                     [d \in Range(dets) |-> classification[d[1]][d[2] + 1]]) :
                          dets \in AllDetections(boxes, classification, nclasses - 1)}}

\* Boxes and class score vectors tried: a box, a near duplicate of it and a
\* distant box; scores of 0, 0.03, 0.8, 0.9 and 1.
FilterBoxes == {<<0, 0, 10, 10>>, <<0, 0, 10, 9>>, <<100, 100, 150, 150>>}
FilterScores == {<<0, 90>>, <<0, 100>>, <<100, 0>>, <<90, 80>>, <<3, 0>>}

\* The additional tensors tried: none, or one of rows [0, v] and one of scalars,
\* with values that name the image and the detection.
OtherTensors(b, n_other) ==
    IF n_other = 0 THEN <<>>
    ELSE << [i \in 1..2 |-> <<0, 1000 + 10 * b + i>>], [i \in 1..2 |-> 2000 + 10 * b + i] >>

\* The images tried: two detections each.
FilterImages(b, n_other) ==
    {[boxes |-> bx, classification |-> cl, other |-> OtherTensors(b, n_other)] :
        bx \in [1..2 -> FilterBoxes], cl \in [1..2 -> FilterScores]}

\* A second image for the batches of two.
SecondImages(n_other) ==
    {im \in FilterImages(1, n_other) :
        /\ im.boxes[1] = <<100, 100, 150, 150>>
        /\ im.boxes[2] # <<0, 0, 10, 9>>
        /\ im.classification[1] = <<100, 0>>
        /\ im.classification[2] \in {<<90, 80>>, <<0, 90>>}}

InitFilter ==
    /\ pc = "built"
    /\ layer = [class |-> "FilterDetections"]
    /\ args = None
    /\ ret = None

\* tf.map_fn over the batch: every image is filtered by itself.
FilterBatch(images) ==
    IF Len(images) = 1
    THEN {<<r>> : r \in FilterImage(images[1].boxes, images[1].classification,
                                    images[1].other)}
    ELSE {<<r1, r2>> :
            r1 \in FilterImage(images[1].boxes, images[1].classification, images[1].other),
            r2 \in FilterImage(images[2].boxes, images[2].classification, images[2].other)}

\* layer.call([boxes, classification] + other) on a batch of one or two images
FilterDetectionsCall ==
    /\ pc = "built"
    /\ \E n_other \in {0, 2} : \E first \in FilterImages(0, n_other) :
       \E images \in {<<first>>} \cup {<<first, second>> : second \in SecondImages(n_other)} :
          /\ args' = images
          /\ ret' \in FilterBatch(images)
    /\ pc' = "done"
    /\ UNCHANGED layer

NextFilter == FilterDetectionsCall

SpecFilter == InitFilter /\ [][NextFilter]_vars


(***************************************************************************)
(* Claims about FilterDetections                                           *)
(***************************************************************************)
FilterDone == pc = "done" /\ layer.class = "FilterDetections"

\* Two boxes overlap by more than half of their union.
IoUAboveHalf(a, b) ==
    2 * Intersection(a, b) > BoxArea(a) + BoxArea(b) - Intersection(a, b)

\* The slots of an image's output that hold a detection.
KeptSlots(out) == {slot \in 1..300 : out.scores[slot] # -1}

\* The outputs of an image have 300 slots each; the kept detections fill the
\* leading slots and every other slot holds -1.
FixedLength(out) ==
    /\ DOMAIN out.boxes = 1..300
    /\ DOMAIN out.scores = 1..300
    /\ DOMAIN out.labels = 1..300
    /\ \A o \in DOMAIN out.other : DOMAIN out.other[o] = 1..300
    /\ \A slot \in KeptSlots(out) : \A before \in 1..slot : before \in KeptSlots(out)
    /\ \A slot \in (1..300) \ KeptSlots(out) :
          /\ out.boxes[slot] = <<-1, -1, -1, -1>>
          /\ out.labels[slot] = -1
          /\ \A o \in DOMAIN out.other :
                out.other[o][slot] = (IF o = 1 THEN <<-1, -1>> ELSE -1)

\* Every kept slot holds a detection of this image: the box, the score of its
\* label and the rows of the additional tensors of one input detection.
OwnRows(in, out) ==
    \A slot \in KeptSlots(out) :
        \E i \in DOMAIN in.boxes :
            /\ out.boxes[slot] = in.boxes[i]
            /\ out.labels[slot] \in 0..(Len(in.classification[i]) - 1)
            /\ out.scores[slot] = in.classification[i][out.labels[slot] + 1]
            /\ \A o \in DOMAIN in.other : out.other[o][slot] = in.other[o][i]

NormLow(y, image_dim, H) == Rat(y * H, Scale * image_dim * (H - 1))
NormHigh(y, image_dim, H) == Rat(y * H - Scale * image_dim, Scale * image_dim * (H - 1))

\* A real number in [0, 1].
InUnit(q) == q[2] > 0 /\ 0 <= q[1] /\ q[1] <= q[2]

\* C18 (as claimed): in every RoI of a returned call the box is normalised with
\* the dimensions of its level's feature map, y1 and y2 with the height H and x1
\* and x2 with the width W, whatever the batch size, and a box inside the image
\* maps into [0, 1].
C18_LevelNormalised ==
    CallOk =>
        \A b \in DOMAIN ret.rois : \A j \in DOMAIN ret.rois[b] :
            LET box == ret.boxes[b][j]
                H == args.fpn_shapes[ret.rois[b][j].level][2]
                W == args.fpn_shapes[ret.rois[b][j].level][3]
                crop == ret.rois[b][j].box
            IN  /\ crop = <<NormLow(box[2], args.image_shape[2], H),
                            NormLow(box[1], args.image_shape[3], W),
                            NormHigh(box[4], args.image_shape[2], H),
                            NormHigh(box[3], args.image_shape[3], W)>>
                /\ \A c \in 1..4 : InUnit(crop[c])

\* C19 (as claimed): for any number of feature maps and any selected boxes the
\* level groups partition the selected detections, so the concatenated outputs
\* hold batch * top_k rows and the reshape to [batch, top_k, ...] succeeds.
C19_GroupsPartition ==
    (pc = "done" /\ layer.top_k <= args.n) =>
        /\ ret.status = "ok"
        /\ \A b \in DOMAIN ret.rois : Cardinality(DOMAIN ret.rois[b]) = layer.top_k
        /\ Cardinality(DOMAIN ret.rois) = args.batch


(***************************************************************************)
(* Claims about the wiring of the pyramid                                  *)
(***************************************************************************)
\* The positions in ret.layers of the layers with a given name.
LayersNamed(name) == {k \in 1..Len(ret.layers) : ret.layers[k].name = name}

\* The one layer with the given name.
TheLayer(name) == ret.layers[CHOOSE k \in LayersNamed(name) : TRUE]

LevelName(prefix, level, suffix) == <<prefix>> \o StrOfInt(level) \o suffix

\* C20: __create_pyramid_features with n >= 2 levels processes them coarsest
\* first; the coarsest level has no addition input; every other level adds
\* exactly one map, the next-coarser level's 1x1-projected map upsampled to this
\* level's backbone feature size, before its final convolution; every level but
\* the finest produces an upsampled map and the finest produces none; level + 1
\* is computed from the coarsest backbone feature and level + 2 from level + 1.
C20_PyramidWiring ==
    (PyramidCall /\ Len(args.backbone_names) >= 2) =>
        LET n == Len(args.backbone_names)
            lo == LevelOfName(args.backbone_names[1])
            hi == LevelOfName(args.backbone_names[n])
            C(L) == args.backbone_features[L - lo + 1]
            reduced(L) == LevelName("C", L, <<"_reduced">>)
            upsampled(L) == LevelName("P", L, <<"_upsampled">>)
            merged(L) == LevelName("P", L, <<"_merged">>)
            final(L) == LevelName("P", L, <<>>)
            At(name) == CHOOSE k \in LayersNamed(name) : TRUE
        IN  /\ ~IsErr(ret)
            /\ \A L \in lo..hi :
                  /\ Cardinality(LayersNamed(reduced(L))) = 1
                  /\ TheLayer(reduced(L)).ins = <<C(L).name>>
                  /\ Cardinality(LayersNamed(final(L))) = 1
                  /\ Cardinality(LayersNamed(merged(L))) = (IF L = hi THEN 0 ELSE 1)
                  /\ Cardinality(LayersNamed(upsampled(L))) = (IF L = lo THEN 0 ELSE 1)
                  /\ TheLayer(final(L)).ins = <<IF L = hi THEN reduced(L) ELSE merged(L)>>
                  /\ L < hi =>
                        /\ TheLayer(merged(L)).ins = <<reduced(L), upsampled(L + 1)>>
                        /\ At(reduced(L + 1)) < At(reduced(L))
                        /\ At(upsampled(L + 1)) < At(merged(L))
                        /\ At(merged(L)) < At(final(L))
                  /\ L > lo =>
                        /\ TheLayer(upsampled(L)).ins = <<reduced(L), C(L - 1).name>>
                        /\ TheLayer(upsampled(L)).h = C(L - 1).h
                        /\ TheLayer(upsampled(L)).w = C(L - 1).w
            /\ TheLayer(final(hi + 1)).ins = <<C(hi).name>>
            /\ TheLayer(args.backbone_names[n] \o <<"_relu">>).ins = <<final(hi + 1)>>
            /\ TheLayer(final(hi + 2)).ins = <<args.backbone_names[n] \o <<"_relu">>>>

\* The levels C3..C5 of a 96 x 128 image: P4 adds C4_reduced and P5_upsampled,
\* which has C4's size 6 x 8; P5 adds nothing and P3 is not upsampled.
C20_Witness ==
    /\ PyramidBuilt
    /\ args.image = <<96, 128>>
    /\ args.backbone_names = CNames(3, 5)
    /\ TheLayer(<<"P", "4", "_merged">>).ins = << <<"C", "4", "_reduced">>, <<"P", "5", "_upsampled">> >>
    /\ TheLayer(<<"P", "5", "_upsampled">>).h = 6
    /\ TheLayer(<<"P", "5", "_upsampled">>).w = 8
    /\ LayersNamed(<<"P", "5", "_merged">>) = {}
    /\ LayersNamed(<<"P", "3", "_upsampled">>) = {}


(***************************************************************************)
(* Claims about the order in which the semantic head is built              *)
(***************************************************************************)
\* The levels of the pyramid names handed to __create_semantic_head.
GivenLevels == [i \in 1..Len(args.pyramid_names) |-> LevelOfName(args.pyramid_names[i])]

\* Semantic feature i has the height and width of semantic feature i - 1.
SizedAsPrevious(i) ==
    /\ ret.semantic_features[i].h = ret.semantic_features[i - 1].h
    /\ ret.semantic_features[i].w = ret.semantic_features[i - 1].w

\* C21 (as claimed): whichever order the levels are supplied in, the head is
\* built coarsest first: the first semantic feature is the coarsest level's,
\* each later level is resized to the previously built one, and the last name
\* handed to semantic_prediction is the finest level's.  (Levels below
\* target_level are left aside.)
C21_CoarsestFirst ==
    (HeadBuilt /\ \A i \in DOMAIN GivenLevels : GivenLevels[i] >= args.target_level) =>
        LET n == Len(ret.semantic_names)
        IN  /\ n = Len(args.pyramid_names)
            /\ ret.semantic_names[1] = <<"Q">> \o StrOfInt(Max(Range(GivenLevels)))
            /\ ret.semantic_names[n] = <<"Q">> \o StrOfInt(Min(Range(GivenLevels)))
            /\ \A i \in 2..n : SizedAsPrevious(i)

\* C21 (amended): the head is built in the reverse of the order supplied:
\* semantic feature i is made from the i-th level from the end of the lists, and
\* each later feature whose level is not below target_level is resized to the
\* previously built one (a level below target_level is passed on unchanged).
\* So levels given finest to coarsest are processed coarsest first and the last
\* name handed on is the finest level's; levels given coarsest to finest are
\* processed finest first and the last name is the coarsest level's.
C21_ReverseOfGiven ==
    HeadBuilt =>
        LET n == Len(ret.semantic_names)
            given(i) == n + 1 - i
        IN  /\ n = Len(args.pyramid_names)
            /\ Len(ret.semantic_features) = n
            /\ \A i \in 1..n :
                  /\ ret.semantic_names[i] = <<"Q">> \o StrOfInt(GivenLevels[given(i)])
                  /\ IF GivenLevels[given(i)] < args.target_level
                     THEN ret.semantic_features[i] = args.pyramid_features[given(i)]
                     ELSE /\ ret.semantic_features[i].c = 128
                          /\ i > 1 => SizedAsPrevious(i)
                          /\ i = 1 =>
                                LET P == args.pyramid_features[given(1)]
                                    scale == 2^(GivenLevels[given(1)] - args.target_level)
                                IN  /\ ret.semantic_features[1].h = scale * P.h
                                    /\ ret.semantic_features[1].w = scale * P.w

\* Levels given coarsest to finest, P3, P2, P1 of a 100 pixel image with
\* target_level 1: Q1 is built first at P1's size 50, Q2 and Q3 are resized to
\* it, and Q3 is the last name.
C21_Witness ==
    /\ HeadBuilt
    /\ args.pyramid_names = << <<"P", "3">>, <<"P", "2">>, <<"P", "1">> >>
    /\ args.pyramid_features[3].h = 50
    /\ args.target_level = 1
    /\ ret.semantic_names = << <<"Q", "1">>, <<"Q", "2">>, <<"Q", "3">> >>
    /\ ret.semantic_features[1].h = 50
    /\ ret.semantic_features[2].h = 50
    /\ ret.semantic_features[3].h = 50
    /\ ret.semantic_features[3].name = <<"upsample_like">>

=============================================================================
